---------------------------- MODULE Spec2Model ----------------------------
(***************************************************************************)
(* Model of the billing-invoice-automation library: the MCP server setup   *)
(* (setup.ts), the user URL generator and the IDE configuration renderer   *)
(* (generate-url.ts) and the fixed billing manifest (config.ts).           *)
(*                                                                         *)
(* JavaScript strings are TLA+ strings (Len, \o and SubSeq work on them).  *)
(* A JavaScript value that may be absent is a tuple: <<>> is undefined and *)
(* <<s>> is the string s.  An object with ordered string keys (a headers   *)
(* record) is a sequence of [key, value] entries in insertion order.       *)
(***************************************************************************)
EXTENDS Integers, Sequences, FiniteSets, TLC

VARIABLES
    env,          \* process.env.COMPOSIO_API_KEY: undefined or a string
    pc,           \* position of the one library call of this run
    args,         \* the arguments of that call
    remoteCalls,  \* the requests sent to the platform, in order
    reply,        \* what the platform answered to the request
    outcome,      \* what the call returned or threw
    endpoint,     \* the GeneratedUrl object handed to generateIDEConfigs
    renders,      \* the generateIDEConfigs calls made, in order
    caller        \* what awaits the library call: nothing, generateUrlWithConfigs
                  \* or a command of the CLI, with its output and exit code

vars ==
    <<env, pc, args, remoteCalls, reply, outcome, endpoint, renders, caller>>

\* How many generateIDEConfigs calls one run of SpecRender makes.
MaxRenders == 2

---------------------------------------------------------------------------
(* JavaScript values and string built-ins                                  *)

undefined == <<>>

Str(s) == <<s>>

\* !v for a value that is undefined or a string
Falsy(v) == v = undefined \/ v = Str("")

\* White space that String.prototype.trim strips (the part the inputs use).
IsWhiteSpace(c) == c \in {" ", "\t", "\n"}

RECURSIVE trimStart(_)
trimStart(s) ==
    IF Len(s) > 0 /\ IsWhiteSpace(SubSeq(s, 1, 1))
    THEN trimStart(SubSeq(s, 2, Len(s)))
    ELSE s

RECURSIVE trimEnd(_)
trimEnd(s) ==
    IF Len(s) > 0 /\ IsWhiteSpace(SubSeq(s, Len(s), Len(s)))
    THEN trimEnd(SubSeq(s, 1, Len(s) - 1))
    ELSE s

\* String.prototype.trim
trim(s) == trimEnd(trimStart(s))

\* String.prototype.includes
includes(s, sub) ==
    \E i \in 1..(Len(s) - Len(sub) + 1) : SubSeq(s, i, i + Len(sub) - 1) = sub

\* a || b for values that are undefined or strings
OrElse(a, b) == IF Falsy(a) THEN b ELSE a

---------------------------------------------------------------------------
(* config.ts: the fixed billing manifest                                   *)

BILLING_TOOLKITS ==
    << [toolkit |-> "gmail"],
       [toolkit |-> "googlesheets"],
       [toolkit |-> "googledrive"],
       [toolkit |-> "outlook"],
       [toolkit |-> "xero"] >>

BILLING_ALLOWED_TOOLS ==
    << "GMAIL_FETCH_EMAILS",
       "GMAIL_GET_ATTACHMENT",
       "GMAIL_SEND_EMAIL",
       "GOOGLESHEETS_BATCH_UPDATE",
       "GOOGLESHEETS_CREATE_GOOGLE_SHEET1",
       "GOOGLEDRIVE_DOWNLOAD_FILE",
       "GOOGLEDRIVE_UPLOAD_FILE",
       "OUTLOOK_SEARCH_MESSAGES",
       "OUTLOOK_GET_ATTACHMENT",
       "XERO_LIST_INVOICES",
       "XERO_CREATE_INVOICE" >>

BILLING_MCP_CONFIG ==
    [ name         |-> "billing-invoice-automation",
      toolkits     |-> BILLING_TOOLKITS,
      allowedTools |-> BILLING_ALLOWED_TOOLS ]

---------------------------------------------------------------------------
(* Errors.  An error object is [name, message, cause]; cause is undefined  *)
(* or <<the value that was caught>>.  A value the platform client throws   *)
(* is [isError, message]: an Error instance with its message, or a value   *)
(* that is no Error instance and carries no message.                       *)

ComposioApiKeyError(message) ==
    [name |-> "ComposioApiKeyError", message |-> message, cause |-> undefined]

MCPServerError(message, cause) ==
    [name |-> "MCPServerError", message |-> message, cause |-> cause]

UrlGenerationError(message, cause) ==
    [name |-> "UrlGenerationError", message |-> message, cause |-> cause]

\* error instanceof Error ? error.message : 'Unknown error'
errorMessageOf(error) ==
    IF error.isError THEN error.message ELSE "Unknown error"

---------------------------------------------------------------------------
(* The platform client (@composio/core), outside this repository: what the *)
(* two requests can answer, and what its constructor can do.               *)

\* The constructor is given the key unchecked.  With a key that is absent,
\* empty or blank it may throw or hand back a client; the library decides.
ComposioCtorOutcomes(apiKey) ==
    IF Falsy(apiKey) \/ trim(apiKey[1]) = ""
    THEN {"client", "throws"}
    ELSE {"client"}

ComposioCtorError ==
    [name |-> "Error", message |-> "API key is required", cause |-> undefined]

\* Messages of the errors the platform client rejects with.
PlatformMessages ==
    { "MCP server already exists",
      "401 Conflict: server already exists",
      "Invalid API key",
      "invalid api key",
      "request unauthorized",
      "Request failed with status code 401",
      "Request failed with status code 404",
      "network timeout",
      "" }

\* The values a request can reject with.
PlatformFailures ==
    {[isError |-> TRUE, message |-> m] : m \in PlatformMessages}
        \cup {[isError |-> FALSE, message |-> ""]}

\* The servers composio.mcp.create can resolve with for a request.
CreateReplies(request) ==
    { [id |-> id, name |-> name, toolkits |-> tk, allowedTools |-> at] :
        id \in {"srv-1", "d923db26"},
        name \in {request.name, "renamed-by-platform"},
        tk \in {request.toolkits, <<"gmail">>},
        at \in {request.allowedTools, <<>>} }

\* The instances composio.mcp.generate can resolve with for a request.
GenerateReplies(request) ==
    { [url |-> url, allowedTools |-> BILLING_ALLOWED_TOOLS] :
        url \in { "https://host/v3/mcp/" \o request.serverId
                      \o "?user_id=" \o request.userId,
                  "" } }

---------------------------------------------------------------------------
(* setup.ts                                                                *)

\* getApiKey, without the trim: a key of white space is handed on
getApiKey_noTrim(apiKey) ==
    IF Falsy(apiKey)
    THEN [threw |-> TRUE,
          error |-> ComposioApiKeyError(
                        "COMPOSIO_API_KEY environment variable is required.")]
    ELSE [threw |-> FALSE, value |-> apiKey[1]]

getApiKey(apiKey) ==
    IF Falsy(apiKey) \/ trim(apiKey[1]) = ""
    THEN [threw |-> TRUE,
          error |-> ComposioApiKeyError(
                        "COMPOSIO_API_KEY environment variable is required.")]
    ELSE [threw |-> FALSE, value |-> apiKey[1]]

\* const serverName = config.serverName || BILLING_MCP_CONFIG.name
setupServerName(config) ==
    OrElse(config.serverName, Str(BILLING_MCP_CONFIG.name))[1]

\* const toolkits = BILLING_TOOLKITS.map(t => t.toolkit)
setupToolkits ==
    [i \in 1..Len(BILLING_TOOLKITS) |-> BILLING_TOOLKITS[i].toolkit]

\* const allowedTools = BILLING_ALLOWED_TOOLS
setupAllowedTools == BILLING_ALLOWED_TOOLS

\* composio.mcp.create(serverName, {toolkits, allowedTools, ...})
setupRequest(config) ==
    [ method                    |-> "mcp.create",
      apiKey                    |-> config.composioApiKey,
      name                      |-> setupServerName(config),
      toolkits                  |-> setupToolkits,
      allowedTools              |-> setupAllowedTools,
      manuallyManageConnections |-> FALSE ]

\* setupResult, relaying the lists of the platform's answer
setupResult_echo(mcpConfig) ==
    [ serverId     |-> mcpConfig.id,
      serverName   |-> mcpConfig.name,
      toolkits     |-> mcpConfig.toolkits,
      allowedTools |-> mcpConfig.allowedTools ]

\* The object setup returns when the create request resolves.
setupResult(mcpConfig) ==
    [ serverId     |-> mcpConfig.id,
      serverName   |-> mcpConfig.name,
      toolkits     |-> setupToolkits,
      allowedTools |-> setupAllowedTools ]

\* setupCatch, without the '401' marker
setupCatch_no401(serverName, error) ==
    LET errorMessage == errorMessageOf(error) IN
    IF includes(errorMessage, "already exists")
    THEN MCPServerError(
             "MCP server with name '" \o serverName
                 \o "' already exists with different configuration. "
                 \o "Please use a different server name or delete the existing server.",
             <<error>>)
    ELSE IF includes(errorMessage, "Invalid")
              \/ includes(errorMessage, "unauthorized")
    THEN ComposioApiKeyError("Invalid Composio API key")
    ELSE MCPServerError("Failed to create MCP server: " \o errorMessage, <<error>>)

\* setupCatch, looking for the API key markers before the name conflict
setupCatch_authFirst(serverName, error) ==
    LET errorMessage == errorMessageOf(error) IN
    IF includes(errorMessage, "Invalid")
           \/ includes(errorMessage, "unauthorized")
           \/ includes(errorMessage, "401")
    THEN ComposioApiKeyError("Invalid Composio API key")
    ELSE IF includes(errorMessage, "already exists")
    THEN MCPServerError(
             "MCP server with name '" \o serverName
                 \o "' already exists with different configuration. "
                 \o "Please use a different server name or delete the existing server.",
             <<error>>)
    ELSE MCPServerError("Failed to create MCP server: " \o errorMessage, <<error>>)

\* setupCatch, with a generic message that leaves the platform's message out
setupCatch_bareMessage(serverName, error) ==
    LET errorMessage == errorMessageOf(error) IN
    IF includes(errorMessage, "already exists")
    THEN MCPServerError(
             "MCP server with name '" \o serverName
                 \o "' already exists with different configuration. "
                 \o "Please use a different server name or delete the existing server.",
             <<error>>)
    ELSE IF includes(errorMessage, "Invalid")
              \/ includes(errorMessage, "unauthorized")
              \/ includes(errorMessage, "401")
    THEN ComposioApiKeyError("Invalid Composio API key")
    ELSE MCPServerError("Failed to create MCP server", <<error>>)

\* The catch block of setup: the error thrown for a rejected create request.
setupCatch(serverName, error) ==
    LET errorMessage == errorMessageOf(error) IN
    IF includes(errorMessage, "already exists")
    THEN MCPServerError(
             "MCP server with name '" \o serverName
                 \o "' already exists with different configuration. "
                 \o "Please use a different server name or delete the existing server.",
             <<error>>)
    ELSE IF includes(errorMessage, "Invalid")
              \/ includes(errorMessage, "unauthorized")
              \/ includes(errorMessage, "401")
    THEN ComposioApiKeyError("Invalid Composio API key")
    ELSE MCPServerError("Failed to create MCP server: " \o errorMessage, <<error>>)

---------------------------------------------------------------------------
(* generate-url.ts: generateUserUrl                                        *)

\* generateUserUrlValidate, checking the user ID before the server ID
generateUserUrlValidate_userIdFirst(config) ==
    IF Falsy(config.composioApiKey) \/ trim(config.composioApiKey[1]) = ""
    THEN <<UrlGenerationError("Composio API key is required", undefined)>>
    ELSE IF Falsy(config.userId) \/ trim(config.userId[1]) = ""
    THEN <<UrlGenerationError("User ID is required", undefined)>>
    ELSE IF Falsy(config.serverId) \/ trim(config.serverId[1]) = ""
    THEN <<UrlGenerationError("Server ID is required", undefined)>>
    ELSE <<>>

\* The three checks at the head of generateUserUrl: <<>> when they pass,
\* <<the error thrown>> otherwise.
generateUserUrlValidate(config) ==
    IF Falsy(config.composioApiKey) \/ trim(config.composioApiKey[1]) = ""
    THEN <<UrlGenerationError("Composio API key is required", undefined)>>
    ELSE IF Falsy(config.serverId) \/ trim(config.serverId[1]) = ""
    THEN <<UrlGenerationError("Server ID is required", undefined)>>
    ELSE IF Falsy(config.userId) \/ trim(config.userId[1]) = ""
    THEN <<UrlGenerationError("User ID is required", undefined)>>
    ELSE <<>>

\* composio.mcp.generate(userId, serverId, {manuallyManageConnections: false})
generateUserUrlRequest(config) ==
    [ method                    |-> "mcp.generate",
      apiKey                    |-> config.composioApiKey,
      userId                    |-> config.userId[1],
      serverId                  |-> config.serverId[1],
      manuallyManageConnections |-> FALSE ]

\* generateUserUrlResult, with the key trimmed as the checks trim it
generateUserUrlResult_trimmed(config, serverInstance) ==
    [ url     |-> serverInstance.url,
      headers |-> << [key |-> "x-api-key",
                      value |-> trim(config.composioApiKey[1])] >> ]

\* The GeneratedUrl returned when the generate request resolves.
generateUserUrlResult(config, serverInstance) ==
    [ url     |-> serverInstance.url,
      headers |-> << [key |-> "x-api-key", value |-> config.composioApiKey[1]] >> ]

\* generateUserUrlCatch, reporting an authorization failure as setup does
generateUserUrlCatch_authKind(error) ==
    IF includes(errorMessageOf(error), "401")
    THEN ComposioApiKeyError("Invalid Composio API key")
    ELSE UrlGenerationError(
             "Failed to generate MCP URL: " \o errorMessageOf(error), <<error>>)

\* The catch block of generateUserUrl.
generateUserUrlCatch(error) ==
    UrlGenerationError(
        "Failed to generate MCP URL: " \o errorMessageOf(error), <<error>>)

---------------------------------------------------------------------------
(* generate-url.ts: generateIDEConfigs                                     *)

\* obj[k]: undefined when obj has no entry k
lookup(obj, k) ==
    IF \E i \in DOMAIN obj : obj[i].key = k
    THEN Str(obj[CHOOSE i \in DOMAIN obj : obj[i].key = k].value)
    ELSE undefined

\* {...obj, [k]: v}: an entry already there keeps its place, a new one is last
assign(obj, k, v) ==
    IF \E i \in DOMAIN obj : obj[i].key = k
    THEN [i \in DOMAIN obj |->
             IF obj[i].key = k THEN [key |-> k, value |-> v] ELSE obj[i]]
    ELSE Append(obj, [key |-> k, value |-> v])

\* configHeaders, with ?? in the place of ||: an empty key is kept
configHeaders_nullish(headers) ==
    assign(headers, "x-api-key",
           IF lookup(headers, "x-api-key") = undefined
           THEN "YOUR_COMPOSIO_API_KEY"
           ELSE lookup(headers, "x-api-key")[1])

\* {...headers, 'x-api-key': headers['x-api-key'] || 'YOUR_COMPOSIO_API_KEY'}
configHeaders(headers) ==
    assign(headers, "x-api-key",
           OrElse(lookup(headers, "x-api-key"), Str("YOUR_COMPOSIO_API_KEY"))[1])

\* serverLabel: string = 'billing-agent': the default stands in for undefined
defaultLabel(serverLabel) ==
    IF serverLabel = undefined THEN "billing-agent" ELSE serverLabel[1]

vscodeConfig(url, headers, label) ==
    [mcpServers |->
        << [key   |-> label,
            value |-> [type |-> "http", url |-> url,
                       headers |-> configHeaders(headers)]] >>]

\* kiroConfig, keyed by the default label whatever label is given
kiroConfig_fixedLabel(url, headers, label) ==
    [mcpServers |->
        << [key   |-> "billing-agent",
            value |-> [type |-> "http", url |-> url,
                       headers |-> configHeaders(headers)]] >>]

kiroConfig(url, headers, label) ==
    [mcpServers |->
        << [key   |-> label,
            value |-> [type |-> "http", url |-> url,
                       headers |-> configHeaders(headers)]] >>]

\* claudeDesktopConfig, in the command form of a local process transport
claudeDesktopConfig_command(url, headers, label) ==
    [mcpServers |->
        << [key   |-> label,
            value |-> [command |-> "npx", args |-> <<"mcp-remote", url>>,
                       headers |-> configHeaders(headers)]] >>]

claudeDesktopConfig(url, headers, label) ==
    [mcpServers |->
        << [key   |-> label,
            value |-> [type |-> "http", url |-> url,
                       headers |-> configHeaders(headers)]] >>]

generateIDEConfigs(generatedUrl, serverLabel) ==
    LET url     == generatedUrl.url
        headers == generatedUrl.headers
        label   == defaultLabel(serverLabel)
    IN  [ vscode        |-> vscodeConfig(url, headers, label),
          kiro          |-> kiroConfig(url, headers, label),
          claudeDesktop |-> claudeDesktopConfig(url, headers, label) ]

---------------------------------------------------------------------------
(* Inputs                                                                  *)

Credentials == {undefined, Str(""), Str("  "), Str("k1"), Str(" k1 ")}

ServerNames ==
    {undefined, Str(""), Str(" \t"), Str("billing-invoice-automation"),
     Str("my-billing")}

ServerIds == {undefined, Str(""), Str("\t "), Str("srv-1")}

UserIds == {undefined, Str(""), Str(" "), Str("u@example.com")}

EnvKeys == {undefined, Str(""), Str("   "), Str("k1"), Str(" k1 ")}

SetupConfigs ==
    [composioApiKey : Credentials, serverName : ServerNames]

GenerateUrlConfigs ==
    [composioApiKey : Credentials, serverId : ServerIds, userId : UserIds]

HeaderSets ==
    { <<>>,
      << [key |-> "x-api-key", value |-> ""] >>,
      << [key |-> "x-api-key", value |-> "k1"] >>,
      << [key |-> "x-api-key", value |-> " "] >>,
      << [key |-> "X-Trace", value |-> "t1"] >>,
      << [key |-> "X-API-KEY", value |-> "k9"] >>,
      << [key |-> "x-api-key", value |-> "k1"], [key |-> "X-Trace", value |-> "t1"] >>,
      << [key |-> "X-Trace", value |-> "t1"], [key |-> "x-api-key", value |-> ""] >> }

Endpoints ==
    [ url     : {"https://host/v3/mcp/srv-1?user_id=u@example.com", ""},
      headers : HeaderSets ]

Labels == {undefined, Str("billing-agent"), Str("my-label"), Str("")}

NoEndpoint == [url |-> "", headers |-> <<>>]

---------------------------------------------------------------------------
(* One run: a single call of setup, setupFromEnv or generateUserUrl        *)

\* The library call was made directly: nothing of this repository awaits it.
NoCaller == [kind |-> "none"]

NoReply == [status |-> "none"]

Resolved(value) == [status |-> "resolved", value |-> value]

Rejected(error) == [status |-> "rejected", error |-> error]

Pending == [status |-> "pending"]

Returned(value) == [status |-> "returned", value |-> value]

Threw(error) == [status |-> "threw", error |-> error]

Init ==
    /\ env \in EnvKeys
    /\ pc = "idle"
    /\ args = [op |-> "none"]
    /\ remoteCalls = <<>>
    /\ reply = NoReply
    /\ outcome = Pending
    /\ endpoint = NoEndpoint
    /\ renders = <<>>
    /\ caller = NoCaller

\* setup, from its first line to the await of composio.mcp.create
setupBegin(config) ==
    \E ctor \in ComposioCtorOutcomes(config.composioApiKey) :
        IF ctor = "throws"
        THEN /\ pc' = "done"
             /\ outcome' = Threw(ComposioCtorError)
             /\ UNCHANGED remoteCalls
        ELSE /\ pc' = "awaitCreate"
             /\ remoteCalls' = Append(remoteCalls, setupRequest(config))
             /\ UNCHANGED outcome

SetupCall(config) ==
    /\ pc = "idle"
    /\ args' = [op |-> "setup", config |-> config]
    /\ setupBegin(config)
    /\ UNCHANGED <<env, reply, endpoint, renders>>

\* setupFromEnv: getApiKey, then setup with the key of the environment
SetupFromEnvCall(serverName) ==
    /\ pc = "idle"
    /\ LET apiKey == getApiKey(env) IN
       IF apiKey.threw
       THEN /\ args' = [op |-> "setupFromEnv", serverName |-> serverName]
            /\ pc' = "done"
            /\ outcome' = Threw(apiKey.error)
            /\ UNCHANGED remoteCalls
       ELSE LET config ==
                    [ composioApiKey |-> Str(apiKey.value),
                      serverName     |->
                          OrElse(serverName, Str(BILLING_MCP_CONFIG.name)) ]
            IN  /\ args' = [op |-> "setupFromEnv", serverName |-> serverName,
                            config |-> config]
                /\ setupBegin(config)
    /\ UNCHANGED <<env, reply, endpoint, renders>>

\* composio.mcp.create resolves: setup returns
CreateResolves ==
    /\ pc = "awaitCreate"
    /\ \E mcpConfig \in CreateReplies(remoteCalls[Len(remoteCalls)]) :
           /\ reply' = Resolved(mcpConfig)
           /\ outcome' = Returned(setupResult(mcpConfig))
    /\ pc' = "done"
    /\ UNCHANGED <<env, args, remoteCalls, endpoint, renders>>

\* composio.mcp.create rejects: setup throws from its catch block
CreateRejects(error) ==
    /\ pc = "awaitCreate"
    /\ reply' = Rejected(error)
    /\ outcome' = Threw(setupCatch(setupServerName(args.config), error))
    /\ pc' = "done"
    /\ UNCHANGED <<env, args, remoteCalls, endpoint, renders>>

\* generateUserUrl, from its first line to the await of composio.mcp.generate
GenerateUserUrlCall(config) ==
    /\ pc = "idle"
    /\ args' = [op |-> "generateUserUrl", config |-> config]
    /\ LET invalid == generateUserUrlValidate(config) IN
       IF invalid /= <<>>
       THEN /\ pc' = "done"
            /\ outcome' = Threw(invalid[1])
            /\ UNCHANGED remoteCalls
       ELSE \E ctor \in ComposioCtorOutcomes(config.composioApiKey) :
                IF ctor = "throws"
                THEN /\ pc' = "done"
                     /\ outcome' = Threw(ComposioCtorError)
                     /\ UNCHANGED remoteCalls
                ELSE /\ pc' = "awaitGenerate"
                     /\ remoteCalls' =
                            Append(remoteCalls, generateUserUrlRequest(config))
                     /\ UNCHANGED outcome
    /\ UNCHANGED <<env, reply, endpoint, renders>>

\* composio.mcp.generate resolves: generateUserUrl returns
GenerateResolves ==
    /\ pc = "awaitGenerate"
    /\ \E serverInstance \in GenerateReplies(remoteCalls[Len(remoteCalls)]) :
           /\ reply' = Resolved(serverInstance)
           /\ outcome' =
                  Returned(generateUserUrlResult(args.config, serverInstance))
    /\ pc' = "done"
    /\ UNCHANGED <<env, args, remoteCalls, endpoint, renders>>

\* composio.mcp.generate rejects: generateUserUrl throws from its catch block
GenerateRejects(error) ==
    /\ pc = "awaitGenerate"
    /\ reply' = Rejected(error)
    /\ outcome' = Threw(generateUserUrlCatch(error))
    /\ pc' = "done"
    /\ UNCHANGED <<env, args, remoteCalls, endpoint, renders>>

Next ==
    \/ \E config \in SetupConfigs : SetupCall(config) /\ UNCHANGED caller
    \/ \E serverName \in ServerNames :
           SetupFromEnvCall(serverName) /\ UNCHANGED caller
    \/ CreateResolves /\ UNCHANGED caller
    \/ \E error \in PlatformFailures : CreateRejects(error) /\ UNCHANGED caller
    \/ \E config \in GenerateUrlConfigs :
           GenerateUserUrlCall(config) /\ UNCHANGED caller
    \/ GenerateResolves /\ UNCHANGED caller
    \/ \E error \in PlatformFailures : GenerateRejects(error) /\ UNCHANGED caller

Spec == Init /\ [][Next]_vars

---------------------------------------------------------------------------
(* A run of generateIDEConfigs calls on one GeneratedUrl object            *)

InitRender ==
    /\ env = undefined
    /\ pc = "idle"
    /\ args = [op |-> "none"]
    /\ remoteCalls = <<>>
    /\ reply = NoReply
    /\ outcome = Pending
    /\ endpoint \in Endpoints
    /\ renders = <<>>
    /\ caller = NoCaller

\* generateIDEConfigs(endpoint, serverLabel): builds three new objects and
\* assigns to nothing it was given
GenerateIDEConfigsCall(serverLabel) ==
    /\ Len(renders) < MaxRenders
    /\ renders' = Append(renders,
                         [ serverLabel |-> serverLabel,
                           configs     |-> generateIDEConfigs(endpoint, serverLabel) ])
    /\ UNCHANGED <<env, pc, args, remoteCalls, reply, outcome, endpoint>>

NextRender ==
    \E serverLabel \in Labels :
        GenerateIDEConfigsCall(serverLabel) /\ UNCHANGED caller

SpecRender == InitRender /\ [][NextRender]_vars

---------------------------------------------------------------------------
(* Properties of setup and generateUserUrl, checked under Spec             *)

\* A value that is missing, empty or white space only
Blank(v) == v = undefined \/ trim(v[1]) = ""

\* A string that is empty or white space only
EmptyOrWhiteSpace(v) == v /= undefined /\ trim(v[1]) = ""

IsSetupRun == args.op \in {"setup", "setupFromEnv"}

IsGenerateRun == args.op = "generateUserUrl"

\* The create or generate request was rejected with an Error instance.
RejectedWithError == reply.status = "rejected" /\ reply.error.isError

ConflictText(serverName) ==
    "MCP server with name '" \o serverName
        \o "' already exists with different configuration. "
        \o "Please use a different server name or delete the existing server."

\* C1: generateUserUrl called with a credential, server ID or user ID that
\* is missing, empty or white space only throws a UrlGenerationError whose
\* message names the first such field in the order credential, server ID,
\* user ID, and sends no request to the platform.
C1_ValidationOrder ==
    (IsGenerateRun /\ ( Blank(args.config.composioApiKey)
                          \/ Blank(args.config.serverId)
                          \/ Blank(args.config.userId) ))
    => /\ remoteCalls = <<>>
       /\ pc = "done"
       /\ outcome.status = "threw"
       /\ outcome.error.name = "UrlGenerationError"
       /\ outcome.error.cause = undefined
       /\ Blank(args.config.composioApiKey)
              => outcome.error.message = "Composio API key is required"
       /\ (~Blank(args.config.composioApiKey) /\ Blank(args.config.serverId))
              => outcome.error.message = "Server ID is required"
       /\ (~Blank(args.config.composioApiKey) /\ ~Blank(args.config.serverId))
              => outcome.error.message = "User ID is required"

\* A call with a good credential whose server ID and user ID are both blank
\* has thrown.
C1_Witness ==
    /\ IsGenerateRun
    /\ ~Blank(args.config.composioApiKey)
    /\ Blank(args.config.serverId)
    /\ Blank(args.config.userId)
    /\ outcome.status = "threw"

\* C2: setup (or setupFromEnv) given a credential or a server name that is
\* empty or white space only throws a ComposioApiKeyError and sends no
\* request to the platform.
C2_SetupFailsFast ==
    (IsSetupRun
       /\ IF args.op = "setup"
          THEN EmptyOrWhiteSpace(args.config.composioApiKey)
                   \/ EmptyOrWhiteSpace(args.config.serverName)
          ELSE EmptyOrWhiteSpace(env) \/ EmptyOrWhiteSpace(args.serverName))
    => /\ remoteCalls = <<>>
       /\ pc = "done"
       /\ outcome.status = "threw"
       /\ outcome.error.name = "ComposioApiKeyError"

\* C3 as stated: a rejection whose message contains "401", in setup or in
\* generateUserUrl, surfaces as a ComposioApiKeyError.
C3_Any401IsCredentialError ==
    (pc = "done" /\ RejectedWithError /\ includes(reply.error.message, "401"))
    => /\ outcome.status = "threw"
       /\ outcome.error.name = "ComposioApiKeyError"

\* C3 amended: a rejection whose message contains "401" surfaces from setup
\* as the ComposioApiKeyError 'Invalid Composio API key' unless the message
\* also contains "already exists" (then it is the MCPServerError of a name
\* conflict), and from generateUserUrl as a UrlGenerationError.
C3_401ByOperation ==
    (pc = "done" /\ RejectedWithError /\ includes(reply.error.message, "401"))
    => /\ outcome.status = "threw"
       /\ (IsSetupRun /\ ~includes(reply.error.message, "already exists"))
              => outcome.error = ComposioApiKeyError("Invalid Composio API key")
       /\ (IsSetupRun /\ includes(reply.error.message, "already exists"))
              => outcome.error.name = "MCPServerError"
       /\ IsGenerateRun => outcome.error.name = "UrlGenerationError"

\* setup has thrown for a rejection with a 401 and no name conflict.
C3_Witness ==
    /\ pc = "done"
    /\ IsSetupRun
    /\ RejectedWithError
    /\ includes(reply.error.message, "401")
    /\ ~includes(reply.error.message, "already exists")
    /\ outcome.status = "threw"

\* The text of the platform's failure, empty for a value that is no Error.
FailureText == IF reply.error.isError THEN reply.error.message ELSE ""

SetupRejected == pc = "done" /\ IsSetupRun /\ reply.status = "rejected"

\* The error names the server name sent to the platform and suggests to
\* rename or delete.
IsConflictError(error) ==
    /\ error.name = "MCPServerError"
    /\ includes(error.message, "'" \o remoteCalls[1].name \o "'")
    /\ includes(error.message, "already exists with different configuration")
    /\ includes(error.message,
                "use a different server name or delete the existing server")

\* The error is the generic one, wrapping what the platform threw.
IsGenericServerError(error) ==
    /\ error.name = "MCPServerError"
    /\ SubSeq(error.message, 1, 29) = "Failed to create MCP server: "
    /\ error.cause = <<reply.error>>

\* C4 as stated: a rejected create request is reported as a conflict when the
\* message contains "already exists", otherwise as a ComposioApiKeyError when
\* it contains "invalid" (in either capitalisation), "unauthorized" or "401",
\* otherwise as the generic MCPServerError wrapping the cause.
C4_ClassificationAsStated ==
    SetupRejected
    => /\ outcome.status = "threw"
       /\ IF includes(FailureText, "already exists")
          THEN IsConflictError(outcome.error)
          ELSE IF includes(FailureText, "invalid")
                    \/ includes(FailureText, "Invalid")
                    \/ includes(FailureText, "unauthorized")
                    \/ includes(FailureText, "401")
          THEN outcome.error.name = "ComposioApiKeyError"
          ELSE IsGenericServerError(outcome.error)

\* C4 amended: the same classification with the first authorization marker
\* spelled "Invalid" (the match is case sensitive); a message with a conflict
\* marker and an authorization marker is a conflict.
C4_Classification ==
    SetupRejected
    => /\ outcome.status = "threw"
       /\ IF includes(FailureText, "already exists")
          THEN IsConflictError(outcome.error)
          ELSE IF includes(FailureText, "Invalid")
                    \/ includes(FailureText, "unauthorized")
                    \/ includes(FailureText, "401")
          THEN outcome.error.name = "ComposioApiKeyError"
          ELSE IsGenericServerError(outcome.error)

\* setup has thrown for a message with both a conflict and a 401 marker.
C4_Witness ==
    /\ SetupRejected
    /\ includes(FailureText, "already exists")
    /\ includes(FailureText, "401")
    /\ outcome.status = "threw"

\* C5: when setup returns, serverId and serverName are the platform's id and
\* name, and toolkits and allowedTools are the five toolkits and the eleven
\* tools of the manifest, in order, whatever lists the platform answered.
C5_ManifestEchoed ==
    (pc = "done" /\ IsSetupRun /\ outcome.status = "returned")
    => /\ outcome.value.serverId = reply.value.id
       /\ outcome.value.serverName = reply.value.name
       /\ outcome.value.toolkits =
              <<"gmail", "googlesheets", "googledrive", "outlook", "xero">>
       /\ outcome.value.allowedTools = BILLING_MCP_CONFIG.allowedTools
       /\ Len(outcome.value.allowedTools) = 11

\* setup has returned although the platform answered other lists and another
\* name than requested.
C5_Witness ==
    /\ pc = "done"
    /\ IsSetupRun
    /\ outcome.status = "returned"
    /\ reply.value.toolkits /= remoteCalls[1].toolkits
    /\ reply.value.allowedTools /= remoteCalls[1].allowedTools
    /\ reply.value.name /= remoteCalls[1].name

\* C6: once its checks have passed, generateUserUrl throws nothing but a
\* UrlGenerationError: a rejected generate request surfaces as one whose
\* cause is the value thrown and whose message contains that value's message.
C6_GenerationErrorWraps ==
    (IsGenerateRun /\ pc = "done"
       /\ ~Blank(args.config.composioApiKey)
       /\ ~Blank(args.config.serverId)
       /\ ~Blank(args.config.userId)
       /\ outcome.status = "threw")
    => /\ reply.status = "rejected"
       /\ outcome.error.name = "UrlGenerationError"
       /\ outcome.error.cause = <<reply.error>>
       /\ reply.error.isError
              => includes(outcome.error.message, reply.error.message)

\* generateUserUrl has thrown for an authorization failure of the platform.
C6_Witness ==
    /\ IsGenerateRun
    /\ pc = "done"
    /\ RejectedWithError
    /\ includes(reply.error.message, "401")
    /\ outcome.status = "threw"

\* C7 as stated: every MCPServerError or UrlGenerationError thrown for a
\* rejected request has a message that contains the platform error's message.
C7_MessageEmbeddedAlways ==
    (pc = "done" /\ RejectedWithError /\ outcome.status = "threw"
       /\ outcome.error.name \in {"MCPServerError", "UrlGenerationError"})
    => includes(outcome.error.message, reply.error.message)

\* C7 amended: the generic MCPServerError and the UrlGenerationError thrown
\* for a rejected request contain the platform error's message; the name
\* conflict MCPServerError has a fixed text around the server name instead,
\* and all of them keep the platform error as cause.
C7_MessageEmbedded ==
    (pc = "done" /\ RejectedWithError /\ outcome.status = "threw"
       /\ outcome.error.name \in {"MCPServerError", "UrlGenerationError"})
    => /\ outcome.error.cause = <<reply.error>>
       /\ IF IsSetupRun /\ includes(reply.error.message, "already exists")
          THEN outcome.error.message = ConflictText(remoteCalls[1].name)
          ELSE includes(outcome.error.message, reply.error.message)

\* setup has thrown the generic MCPServerError for a platform error that has
\* a message.
C7_Witness ==
    /\ SetupRejected
    /\ reply.error.isError
    /\ reply.error.message /= ""
    /\ outcome.status = "threw"
    /\ IsGenericServerError(outcome.error)

---------------------------------------------------------------------------
(* Properties of generateIDEConfigs, checked under SpecRender              *)

\* The entries of an object, as a set
Entries(obj) == {obj[i] : i \in DOMAIN obj}

\* The three documents of one generateIDEConfigs call
Documents(configs) == {configs.vscode, configs.kiro, configs.claudeDesktop}

\* The headers of the one server entry of a document
HeadersOf(document) == document.mcpServers[1].value.headers

\* The key the documents of a call are expected under
LabelOf(render) ==
    IF render.serverLabel = undefined
    THEN "billing-agent"
    ELSE render.serverLabel[1]

\* The endpoint carries an x-api-key header that is not empty.
HasApiKey ==
    \E e \in Entries(endpoint.headers) : e.key = "x-api-key" /\ e.value /= ""

\* C8: in each of the three documents the x-api-key header is the
\* placeholder YOUR_COMPOSIO_API_KEY when the endpoint has no x-api-key
\* header or an empty one and the endpoint's value otherwise, and the other
\* headers are those of the endpoint, unchanged.
C8_ApiKeyPlaceholder ==
    \A i \in DOMAIN renders : \A document \in Documents(renders[i].configs) :
        LET out == Entries(HeadersOf(document)) IN
        /\ Cardinality({e \in out : e.key = "x-api-key"}) = 1
        /\ Len(HeadersOf(document)) = Cardinality(out)
        /\ \A e \in out :
               e.key = "x-api-key"
               => IF HasApiKey
                  THEN e \in Entries(endpoint.headers)
                  ELSE e.value = "YOUR_COMPOSIO_API_KEY"
        /\ {e \in out : e.key /= "x-api-key"}
               = {e \in Entries(endpoint.headers) : e.key /= "x-api-key"}

\* A call was made on an endpoint that has an empty x-api-key header next to
\* another header.
C8_Witness ==
    /\ renders /= <<>>
    /\ [key |-> "x-api-key", value |-> ""] \in Entries(endpoint.headers)
    /\ \E e \in Entries(endpoint.headers) : e.key /= "x-api-key"

\* The descriptor under the one mcpServers key of each document of a call
Descriptors(configs) ==
    [ vscode        |-> configs.vscode.mcpServers[1].value,
      kiro          |-> configs.kiro.mcpServers[1].value,
      claudeDesktop |-> configs.claudeDesktop.mcpServers[1].value ]

\* C9: generateIDEConfigs leaves the endpoint as it was; two calls with the
\* same label give equal documents; two calls with different labels give
\* documents with one mcpServers key each, the label of the call, over the
\* same descriptor.
C9_Deterministic ==
    /\ [][endpoint' = endpoint]_vars
    /\ [](\A i, j \in DOMAIN renders :
            /\ renders[i].serverLabel = renders[j].serverLabel
                   => renders[i].configs = renders[j].configs
            /\ Descriptors(renders[i].configs) = Descriptors(renders[j].configs)
            /\ \A document \in Documents(renders[i].configs) :
                   /\ DOMAIN document = {"mcpServers"}
                   /\ Len(document.mcpServers) = 1
                   /\ document.mcpServers[1].key = LabelOf(renders[i]))

\* Two calls were made on the endpoint with different labels.
C9_Witness ==
    /\ Len(renders) >= 2
    /\ LabelOf(renders[1]) /= LabelOf(renders[2])

\* C10: each document has one mcpServers entry, keyed by the label
\* ("billing-agent" when none is given), whose descriptor has the fields
\* type "http", url (the endpoint's) and headers and no others; the vscode
\* and kiro documents are equal and the claudeDesktop document has the same
\* content.
C10_DocumentShape ==
    \A i \in DOMAIN renders :
        LET configs == renders[i].configs IN
        /\ \A document \in Documents(configs) :
               /\ DOMAIN document = {"mcpServers"}
               /\ Len(document.mcpServers) = 1
               /\ document.mcpServers[1].key = LabelOf(renders[i])
               /\ DOMAIN document.mcpServers[1].value = {"type", "url", "headers"}
               /\ document.mcpServers[1].value.type = "http"
               /\ document.mcpServers[1].value.url = endpoint.url
        /\ configs.vscode = configs.kiro
        /\ configs.claudeDesktop = configs.vscode

\* A call was made without a label.
C10_Witness ==
    \E i \in DOMAIN renders :
        /\ renders[i].serverLabel = undefined
        /\ renders[i].configs.vscode.mcpServers[1].key = "billing-agent"

---------------------------------------------------------------------------
(* generate-url.ts: formatIDEConfig, getIDEConfigPath                      *)

\* JSON.stringify of a string (the inputs hold nothing to escape)
quoted(s) == "\"" \o s \o "\""

\* The members of a headers object, one per line at the depth of headers
RECURSIVE headerLines(_)
headerLines(headers) ==
    IF headers = <<>>
    THEN ""
    ELSE "        " \o quoted(headers[1].key) \o ": " \o quoted(headers[1].value)
             \o (IF Len(headers) > 1 THEN ",\n" ELSE "\n")
             \o headerLines(Tail(headers))

\* JSON.stringify(config, null, 2) of a document of generateIDEConfigs
formatIDEConfig(config) ==
    LET entry == config.mcpServers[1] IN
    "{\n"
        \o "  \"mcpServers\": {\n"
        \o "    " \o quoted(entry.key) \o ": {\n"
        \o "      \"type\": " \o quoted(entry.value.type) \o ",\n"
        \o "      \"url\": " \o quoted(entry.value.url) \o ",\n"
        \o "      \"headers\": {\n"
        \o headerLines(entry.value.headers)
        \o "      }\n"
        \o "    }\n"
        \o "  }\n"
        \o "}"

\* getIDEConfigPath, with the paths of kiro and vscode exchanged
getIDEConfigPath_swapped(ide) ==
    CASE ide = "vscode"        -> ".kiro/settings/mcp.json"
      [] ide = "kiro"          -> ".vscode/mcp.json"
      [] ide = "claudeDesktop" ->
             "~/Library/Application Support/Claude/claude_desktop_config.json"
      [] OTHER                 -> "mcp.json"

getIDEConfigPath(ide) ==
    CASE ide = "vscode"        -> ".vscode/mcp.json"
      [] ide = "kiro"          -> ".kiro/settings/mcp.json"
      [] ide = "claudeDesktop" ->
             "~/Library/Application Support/Claude/claude_desktop_config.json"
      [] OTHER                 -> "mcp.json"

---------------------------------------------------------------------------
(* cli.ts: the setup and generate commands.  What console.log and          *)
(* console.error print is kept as a sequence of the strings printed; the   *)
(* marks of the success and error lines are written [ok] and [x], the      *)
(* ruled lines ===.                                                        *)

\* Array.prototype.join
RECURSIVE join(_, _)
join(array, separator) ==
    IF array = <<>>
    THEN ""
    ELSE IF Len(array) = 1
    THEN array[1]
    ELSE array[1] \o separator \o join(Tail(array), separator)

\* What the setup command prints after setupFromEnv has returned.
cliSetupReport(result) ==
    << "[ok] MCP server created successfully!\n",
       "Server ID: " \o result.serverId,
       "Server Name: " \o result.serverName,
       "\nConfigured Toolkits: " \o join(result.toolkits, ", "),
       "\nAllowed Tools (" \o ToString(Len(result.allowedTools)) \o "):" >>
        \o [i \in 1..Len(result.allowedTools) |-> "  - " \o result.allowedTools[i]]
        \o << "\nNext step: Run \"billing-mcp generate <userId>\" to generate a URL for a user." >>

\* cliSetupCatch, leaving with process.exit(0) after a server error
cliSetupCatch_exitZero(error) ==
    IF error.name = "ComposioApiKeyError"
    THEN [stderr |-> "\n[x] API Key Error: " \o error.message, exitCode |-> 1]
    ELSE IF error.name = "MCPServerError"
    THEN [stderr |-> "\n[x] Server Error: " \o error.message, exitCode |-> 0]
    ELSE [stderr |-> "\n[x] Unexpected error: " \o error.message, exitCode |-> 1]

\* The catch block of the setup command: the line printed and the exit code.
cliSetupCatch(error) ==
    IF error.name = "ComposioApiKeyError"
    THEN [stderr |-> "\n[x] API Key Error: " \o error.message, exitCode |-> 1]
    ELSE IF error.name = "MCPServerError"
    THEN [stderr |-> "\n[x] Server Error: " \o error.message, exitCode |-> 1]
    ELSE [stderr |-> "\n[x] Unexpected error: " \o error.message, exitCode |-> 1]

\* The catch block of the generate command: the line printed and the exit code.
cliGenerateCatch(error) ==
    IF error.name = "ComposioApiKeyError"
    THEN [stderr |-> "\n[x] API Key Error: " \o error.message, exitCode |-> 1]
    ELSE IF error.name = "UrlGenerationError"
    THEN [stderr |-> "\n[x] URL Generation Error: " \o error.message, exitCode |-> 1]
    ELSE [stderr |-> "\n[x] Unexpected error: " \o error.message, exitCode |-> 1]

rule == "==============================================================="

\* What the generate command prints after generateUserUrl has returned.
cliGenerateReport(generatedUrl, ideConfigs) ==
    << "[ok] MCP URL generated successfully!\n",
       rule, "MCP URL:", rule, generatedUrl.url, "",
       rule,
       "VSCode Configuration (" \o getIDEConfigPath("vscode") \o "):",
       rule, formatIDEConfig(ideConfigs.vscode), "",
       rule,
       "Kiro Configuration (" \o getIDEConfigPath("kiro") \o "):",
       rule, formatIDEConfig(ideConfigs.kiro), "",
       rule,
       "Claude Desktop Configuration (" \o getIDEConfigPath("claudeDesktop") \o "):",
       rule, formatIDEConfig(ideConfigs.claudeDesktop), "",
       rule,
       "Note: Replace YOUR_COMPOSIO_API_KEY with your actual API key",
       "if the placeholder is shown in the configuration above.",
       rule >>

---------------------------------------------------------------------------
(* One run of a caller of the library: a command of the CLI,               *)
(* generateUrlWithConfigs, or a lookup of getIDEConfigPath                 *)

\* What commander hands to the actions: strings, the defaults filled in
CliNames == {name[1] : name \in ServerNames \ {undefined}}

CliUserIds == {userId[1] : userId \in UserIds \ {undefined}}

CliServerIds == {serverId[1] : serverId \in ServerIds \ {undefined}}

CliLabels == {label[1] : label \in Labels \ {undefined}}

\* The targets asked of getIDEConfigPath, the declared three and others
Targets == {"vscode", "kiro", "claudeDesktop", "cursor", "VSCode", ""}

\* A command that has printed its first line and awaits the library
CliProcess(kind, label, firstLine) ==
    [ kind     |-> kind,
      label    |-> label,
      exitCode |-> undefined,
      stdout   |-> <<firstLine>>,
      stderr   |-> <<>> ]

\* The setup command, up to the await of setupFromEnv(options.name)
CliSetupCommand(name) ==
    /\ caller = NoCaller
    /\ SetupFromEnvCall(Str(name))
    /\ caller' = CliProcess("setup command", "", "Setting up billing MCP server...\n")

\* The setup command after the await: the report, or the catch block
CliSetupSettle ==
    /\ caller.kind = "setup command"
    /\ pc = "done"
    /\ IF outcome.status = "returned"
       THEN caller' = [caller EXCEPT
                !.stdout   = @ \o cliSetupReport(outcome.value),
                !.exitCode = <<0>>]
       ELSE caller' = [caller EXCEPT
                !.stderr   = Append(@, cliSetupCatch(outcome.error).stderr),
                !.exitCode = <<cliSetupCatch(outcome.error).exitCode>>]
    /\ pc' = "exited"
    /\ UNCHANGED <<env, args, remoteCalls, reply, outcome, endpoint, renders>>

\* The generate command, up to the await of generateUserUrl; getApiKey
\* throws into the catch block of the command
CliGenerateCommand(userId, serverId, label) ==
    /\ caller = NoCaller
    /\ LET firstLine == "Generating MCP URL for user: " \o userId \o "\n"
           apiKey    == getApiKey(env)
       IN  IF apiKey.threw
           THEN /\ pc = "idle"
                /\ pc' = "exited"
                /\ caller' =
                       [CliProcess("generate command", label, firstLine) EXCEPT
                           !.stderr   = <<cliGenerateCatch(apiKey.error).stderr>>,
                           !.exitCode = <<cliGenerateCatch(apiKey.error).exitCode>>]
                /\ UNCHANGED <<env, args, remoteCalls, reply, outcome,
                               endpoint, renders>>
           ELSE /\ GenerateUserUrlCall(
                       [ composioApiKey |-> Str(apiKey.value),
                         serverId       |-> Str(serverId),
                         userId         |-> Str(userId) ])
                /\ caller' = CliProcess("generate command", label, firstLine)

\* The generate command after the await: generateIDEConfigs and the report,
\* or the catch block
CliGenerateSettle ==
    /\ caller.kind = "generate command"
    /\ pc = "done"
    /\ IF outcome.status = "returned"
       THEN LET ideConfigs == generateIDEConfigs(outcome.value, Str(caller.label))
            IN  /\ endpoint' = outcome.value
                /\ renders' = Append(renders,
                                     [ serverLabel |-> Str(caller.label),
                                       configs     |-> ideConfigs ])
                /\ caller' = [caller EXCEPT
                       !.stdout   = @ \o cliGenerateReport(outcome.value, ideConfigs),
                       !.exitCode = <<0>>]
       ELSE /\ caller' = [caller EXCEPT
                   !.stderr   = Append(@, cliGenerateCatch(outcome.error).stderr),
                   !.exitCode = <<cliGenerateCatch(outcome.error).exitCode>>]
            /\ UNCHANGED <<endpoint, renders>>
    /\ pc' = "exited"
    /\ UNCHANGED <<env, args, remoteCalls, reply, outcome>>

\* generateUrlWithConfigs, up to the await of generateUserUrl(config)
GenerateUrlWithConfigsCall(config, serverLabel) ==
    /\ caller = NoCaller
    /\ GenerateUserUrlCall(config)
    /\ caller' = [ kind   |-> "generateUrlWithConfigs",
                   label  |-> serverLabel,
                   result |-> Pending ]

\* generateUrlWithConfigs after the await: generateIDEConfigs and the return,
\* or the error of generateUserUrl, which it does not catch
GenerateUrlWithConfigsSettle ==
    /\ caller.kind = "generateUrlWithConfigs"
    /\ pc = "done"
    /\ IF outcome.status = "returned"
       THEN LET ideConfigs == generateIDEConfigs(outcome.value, caller.label)
            IN  /\ endpoint' = outcome.value
                /\ renders' = Append(renders,
                                     [ serverLabel |-> caller.label,
                                       configs     |-> ideConfigs ])
                /\ caller' = [caller EXCEPT
                       !.result = Returned([ url        |-> outcome.value,
                                             ideConfigs |-> ideConfigs ])]
       ELSE /\ caller' = [caller EXCEPT !.result = Threw(outcome.error)]
            /\ UNCHANGED <<endpoint, renders>>
    /\ pc' = "settled"
    /\ UNCHANGED <<env, args, remoteCalls, reply, outcome>>

\* A direct call of getIDEConfigPath
GetIDEConfigPathCall(ide) ==
    /\ caller = NoCaller
    /\ pc = "idle"
    /\ caller' = [ kind   |-> "getIDEConfigPath",
                   ide    |-> ide,
                   result |-> getIDEConfigPath(ide) ]
    /\ pc' = "settled"
    /\ UNCHANGED <<env, args, remoteCalls, reply, outcome, endpoint, renders>>

NextCli ==
    \/ \E name \in CliNames : CliSetupCommand(name)
    \/ CliSetupSettle
    \/ \E userId \in CliUserIds, serverId \in CliServerIds, label \in CliLabels :
           CliGenerateCommand(userId, serverId, label)
    \/ CliGenerateSettle
    \/ \E config \in GenerateUrlConfigs, serverLabel \in Labels :
           GenerateUrlWithConfigsCall(config, serverLabel)
    \/ GenerateUrlWithConfigsSettle
    \/ \E ide \in Targets : GetIDEConfigPathCall(ide)
    \/ CreateResolves /\ UNCHANGED caller
    \/ \E error \in PlatformFailures : CreateRejects(error) /\ UNCHANGED caller
    \/ GenerateResolves /\ UNCHANGED caller
    \/ \E error \in PlatformFailures : GenerateRejects(error) /\ UNCHANGED caller

\* The continuations after an await run once the promise has settled, and
\* the platform client settles every request (it answers or times out).
SpecCli == Init /\ [][NextCli]_vars /\ WF_vars(NextCli)

---------------------------------------------------------------------------
(* Properties of the commands, of generateUrlWithConfigs and of            *)
(* getIDEConfigPath, checked under SpecCli                                 *)

IsCli == caller.kind \in {"setup command", "generate command"}

CliExited == IsCli /\ caller.exitCode /= undefined

\* The error the command caught: the one the library call threw, or the one
\* of getApiKey in the generate command.
CaughtError ==
    IF outcome.status = "threw" THEN outcome.error ELSE getApiKey(env).error

\* The words a command prints before the message of an error of that kind
PrefixOfKind(error) ==
    IF error.name = "ComposioApiKeyError" THEN "API Key Error: "
    ELSE IF error.name = "MCPServerError" /\ caller.kind = "setup command"
    THEN "Server Error: "
    ELSE IF error.name = "UrlGenerationError" /\ caller.kind = "generate command"
    THEN "URL Generation Error: "
    ELSE "Unexpected error: "

\* A success line was printed.
PrintedSuccess ==
    \E i \in DOMAIN caller.stdout : includes(caller.stdout[i], "successfully")

\* What holds of a command at every moment
CliExitContract ==
    IsCli =>
        /\ ~CliExited => (caller.stderr = <<>> /\ ~PrintedSuccess)
        /\ CliExited =>
              /\ caller.exitCode \in {<<0>>, <<1>>}
              /\ caller.exitCode = <<0>> <=> outcome.status = "returned"
              /\ caller.exitCode = <<0>> => (caller.stderr = <<>> /\ PrintedSuccess)
              /\ caller.exitCode = <<1>> =>
                    /\ ~PrintedSuccess
                    /\ caller.stderr =
                           << "\n[x] " \o PrefixOfKind(CaughtError)
                                  \o CaughtError.message >>

\* C11: a run of the setup or the generate command ends, with exit code 0
\* when the library call returned and exit code 1 when anything was thrown;
\* the error is printed once, with the prefix of its kind, no success line is
\* printed with it, and nothing happens after the exit.
C11_ExitCodes ==
    /\ []CliExitContract
    /\ [][CliExited => UNCHANGED vars]_vars
    /\ (IsCli ~> CliExited)

\* The setup command has left with exit code 1 after a server error.
C11_Witness ==
    /\ caller.kind = "setup command"
    /\ CliExited
    /\ caller.exitCode = <<1>>
    /\ outcome.status = "threw"
    /\ outcome.error.name = "MCPServerError"

\* The request a command is expected to send
MethodOf(kind) ==
    IF kind = "setup command" THEN "mcp.create" ELSE "mcp.generate"

\* C12 as stated: a command sends at most one request; when it has left and
\* the credential of the environment is not blank it has sent exactly one,
\* of the kind of the command; when the credential is blank it sends none.
C12_OneCallAsStated ==
    IsCli =>
        /\ Len(remoteCalls) <= 1
        /\ \A i \in DOMAIN remoteCalls :
               remoteCalls[i].method = MethodOf(caller.kind)
        /\ Blank(env) => remoteCalls = <<>>
        /\ (CliExited /\ ~Blank(env)) => Len(remoteCalls) = 1

\* The generate command was given a server ID or a user ID that is blank.
BlankGenerateArgument ==
    /\ caller.kind = "generate command"
    /\ args.op = "generateUserUrl"
    /\ (Blank(args.config.serverId) \/ Blank(args.config.userId))

\* C12 amended: as stated, but the generate command sends its one request
\* only when the server ID and the user ID are not blank either, and none
\* when one of them is.
C12_OneCall ==
    IsCli =>
        /\ Len(remoteCalls) <= 1
        /\ \A i \in DOMAIN remoteCalls :
               remoteCalls[i].method = MethodOf(caller.kind)
        /\ Blank(env) => remoteCalls = <<>>
        /\ BlankGenerateArgument => remoteCalls = <<>>
        /\ (CliExited /\ ~Blank(env) /\ ~BlankGenerateArgument)
               => Len(remoteCalls) = 1

\* The generate command has left after its one request was rejected.
C12_Witness ==
    /\ caller.kind = "generate command"
    /\ CliExited
    /\ reply.status = "rejected"
    /\ Len(remoteCalls) = 1

\* C13: getIDEConfigPath answers for every target: the three fixed paths of
\* vscode, kiro and claudeDesktop, and mcp.json for any other target.
C13_ConfigPathTotal ==
    caller.kind = "getIDEConfigPath" =>
        /\ caller.ide = "vscode" => caller.result = ".vscode/mcp.json"
        /\ caller.ide = "kiro" => caller.result = ".kiro/settings/mcp.json"
        /\ caller.ide = "claudeDesktop" =>
               caller.result =
                   "~/Library/Application Support/Claude/claude_desktop_config.json"
        /\ caller.ide \notin {"vscode", "kiro", "claudeDesktop"} =>
               caller.result = "mcp.json"

\* getIDEConfigPath was asked for a target it does not know.
C13_Witness ==
    /\ caller.kind = "getIDEConfigPath"
    /\ caller.ide = "cursor"
    /\ caller.result = "mcp.json"

\* The run goes through generateUserUrl and then generateIDEConfigs.
IsComposedRun == caller.kind \in {"generateUrlWithConfigs", "generate command"}

\* The text of the x-api-key member of a printed document
ApiKeyMember(value) == quoted("x-api-key") \o ": " \o quoted(value)

\* C14: when generateUserUrl returns, its headers are the one x-api-key
\* header with the credential it was given, white space kept; in
\* generateUrlWithConfigs and in the generate command the three documents
\* then carry that credential, and no document made or printed holds the
\* placeholder YOUR_COMPOSIO_API_KEY.
C14_RealCredential ==
    (args.op = "generateUserUrl" /\ outcome.status = "returned") =>
        LET credential == args.config.composioApiKey[1] IN
        /\ outcome.value.headers =
               << [key |-> "x-api-key", value |-> credential] >>
        /\ (IsComposedRun /\ pc \in {"exited", "settled"}) =>
              /\ Len(renders) = 1
              /\ \A document \in Documents(renders[1].configs) :
                     /\ HeadersOf(document) =
                            << [key |-> "x-api-key", value |-> credential] >>
                     /\ ~includes(formatIDEConfig(document), "YOUR_COMPOSIO_API_KEY")
                     /\ caller.kind = "generate command" =>
                            \E i \in DOMAIN caller.stdout :
                                /\ caller.stdout[i] = formatIDEConfig(document)
                                /\ includes(caller.stdout[i], ApiKeyMember(credential))

\* The generate command has printed its documents for a credential with
\* white space around it.
C14_Witness ==
    /\ caller.kind = "generate command"
    /\ CliExited
    /\ caller.exitCode = <<0>>
    /\ env = Str(" k1 ")
    /\ renders /= <<>>

=============================================================================
